---- MODULE Spec2Model ----
\* Synchronized checkpoints (src/src/checkpointsync.cpp): the checkpoint state
\* of one node, the operations that change it, and the block index and active
\* chain they read.
EXTENDS Integers, Sequences, FiniteSets, TLC

\* ---------------------------------------------------------------- bounds
\* Block hashes are 1..MaxBlocks. Block h builds on block h \div 2, so the
\* blocks form a tree that forks at every block: 1 is genesis, 2 and 3 compete
\* at height 1, 4 and 5 build on 2, 6 and 7 on 3.
MaxBlocks == 4

\* ------------------------------------------------------------- constants
\* ArithToUint256(arith_uint256(0)): the "unset" hash; also stands for a null
\* CBlockIndex pointer.
Zero == 0
\* Params().GetConsensus().hashGenesisBlock
hashGenesisBlock == 1
\* Checkpoints::GetLatestHardenedCheckpoint(Params().Checkpoints())
hashHardenedCheckpoint == 2
\* CUnsignedSyncCheckpoint::nVersion, first field of the signed payload
nVersion == 1
\* Params().GetConsensus().checkpointPubKey
strMasterPubKey == "master"

Hashes == 1..MaxBlocks
\* The threads that run checkpoint operations: message processing and RPC.
Threads == {1, 2}
\* A thread that is in no checkpoint operation. Otherwise: the place it is at,
\* the hash of the checkpoint it is about to relay and whether that hash was
\* the persisted checkpoint when the thread got there.
Idle == [at |-> "idle", hash |-> Zero, written |-> FALSE]
\* The largest value of an int: pindex->nHeight + (int)GetArg(...) is an int sum.
INT_MAX == 2147483647
\* The values of -checkpointdepth tried: small ones around the heights of the
\* chain and the largest ints.
Depths == {0, 1, 2, 3, INT_MAX - 1, INT_MAX}
Keys == {strMasterPubKey, "rogue"}
\* No master public key persisted: ReadCheckpointPubKey fails.
NoKey == ""
\* What the database can hold as master public key: nothing, the compiled-in
\* key, or the key of an earlier release.
PubKeys == {NoKey, strMasterPubKey, "old"}
\* Private key strings: none, one that does not decode, one that decodes to an
\* invalid key, the master's key and a valid key that is not the master's.
PrivKeys == {"", "garbage", "badkey", strMasterPubKey, "rogue"}
\* CBitcoinSecret::SetString(strPrivKey)
SetString(strPrivKey) == strPrivKey \in {"badkey", strMasterPubKey, "rogue"}
\* CKey::IsValid() of vchSecret.GetKey()
IsValid(strPrivKey) == strPrivKey \in {strMasterPubKey, "rogue"}

VARIABLES
    mapBlockIndex,            \* hash -> [pprev, nHeight], the known blocks
    chainActive,              \* the active chain, genesis first
    hashSyncCheckpoint,       \* active checkpoint
    hashPendingCheckpoint,    \* pending checkpoint
    checkpointMessage,        \* last accepted message
    checkpointMessagePending, \* message of the pending checkpoint
    hashInvalidCheckpoint,    \* conflict marker
    dbSyncCheckpoint,         \* checkpoint persisted in pblocktree
    last,                     \* the last operation: its name, its result, the
                              \* hash it relayed, whether its message verified
    strMasterPrivKey,         \* CSyncCheckpoint::strMasterPrivKey
    dbCheckpointPubKey,       \* master public key persisted in pblocktree
    selected,                 \* last result of AutoSelectSyncCheckpoint
    cs_hashSyncCheckpoint,    \* the thread that holds the lock, Zero if free
    pc                        \* where each thread is in its operation

\* The variables of a node that is not a checkpoint master, whose persisted
\* master key is current and whose operations are taken as single steps.
nodeVars == <<mapBlockIndex, chainActive, hashSyncCheckpoint, hashPendingCheckpoint,
              checkpointMessage, checkpointMessagePending, hashInvalidCheckpoint,
              dbSyncCheckpoint, last>>
masterVars == <<strMasterPrivKey, dbCheckpointPubKey>>
threadVars == <<cs_hashSyncCheckpoint, pc>>

vars == <<mapBlockIndex, chainActive, hashSyncCheckpoint, hashPendingCheckpoint,
          checkpointMessage, checkpointMessagePending, hashInvalidCheckpoint,
          dbSyncCheckpoint, last, strMasterPrivKey, dbCheckpointPubKey,
          selected, cs_hashSyncCheckpoint, pc>>

\* ------------------------------------------------------------- messages
\* sMsg << (CUnsignedSyncCheckpoint)checkpoint
Serialize(hash) == <<nVersion, hash>>
\* sMsg >> *(CUnsignedSyncCheckpoint*)this
Unserialize(vchMsg) == vchMsg[2]
\* key.Sign(Hash(vchMsg), vchSig)
Sign(key, vchMsg) == [signer |-> key, digest |-> vchMsg]
\* key.Verify(Hash(vchMsg), vchSig)
Verify(key, vchMsg, vchSig) == vchSig.signer = key /\ vchSig.digest = vchMsg

\* CSyncCheckpoint after SetNull()
NullMessage == [hashCheckpoint |-> Zero, vchMsg |-> <<>>, vchSig |-> <<>>]
IsNull(msg) == msg.hashCheckpoint = Zero

\* A message signed by the master over the payload that names hash.
SignedMessage(hash) ==
    [hashCheckpoint |-> hash, vchMsg |-> Serialize(hash),
     vchSig |-> Sign(strMasterPubKey, Serialize(hash))]

\* Messages a peer can send: a payload naming any block, carried with the same
\* hash or with another one, signed by the master over that payload, by another key, or with a signature over other
\* bytes (a corrupted signature).
Signatures(vchMsg) ==
    {Sign(strMasterPubKey, vchMsg), Sign("rogue", vchMsg),
     Sign(strMasterPubKey, Serialize(Zero))}
Messages ==
    UNION {{[hashCheckpoint |-> h, vchMsg |-> Serialize(p), vchSig |-> sig] :
                h \in {p, (p % MaxBlocks) + 1}, sig \in Signatures(Serialize(p))} : p \in Hashes}

\* -------------------------------------------------- block index and chain
\* CBlockHeader::hashPrevBlock of the block with this hash
hashPrevBlock(hash) == hash \div 2

\* mapBlockIndex.count(hash)
Count(idx, hash) == hash \in DOMAIN idx

\* CChain::Contains(pindex): (*this)[pindex->nHeight] == pindex
Contains(chain, idx, hash) ==
    /\ idx[hash].nHeight + 1 <= Len(chain)
    /\ chain[idx[hash].nHeight + 1] = hash

\* pindex = start; while (pindex->nHeight > nHeight) pindex = pindex->pprev;
\* Zero when pprev is null on the way (block index structure failure).
RECURSIVE TraceBack(_, _, _)
TraceBack(idx, pindex, nHeight) ==
    IF pindex = Zero THEN Zero
    ELSE IF idx[pindex].nHeight > nHeight
         THEN TraceBack(idx, idx[pindex].pprev, nHeight)
         ELSE pindex

\* The chain that ends in block hash, genesis first.
RECURSIVE ChainTo(_, _)
ChainTo(idx, hash) ==
    IF hash = Zero THEN <<>> ELSE Append(ChainTo(idx, idx[hash].pprev), hash)

\* CChain::Tip()
Tip(chain) == chain[Len(chain)]

\* uint256 AutoSelectSyncCheckpoint(), from pindex on, with depth the value of
\* (int)GetArg("-checkpointdepth", -1): the set of hashes the loop can return.
\* while (pindex->pprev && pindex->nHeight + depth > Tip()->nHeight)
\*     pindex = pindex->pprev;
\* When the int sum nHeight + depth exceeds INT_MAX the addition overflows,
\* which is undefined: the comparison may come out either way.
RECURSIVE AutoSelectFrom(_, _, _, _)
AutoSelectFrom(idx, pindex, depth, nTipHeight) ==
    IF idx[pindex].pprev = Zero THEN {pindex}
    ELSE IF depth > INT_MAX - idx[pindex].nHeight
    THEN {pindex} \cup AutoSelectFrom(idx, idx[pindex].pprev, depth, nTipHeight)
    ELSE IF idx[pindex].nHeight + depth > nTipHeight
    THEN AutoSelectFrom(idx, idx[pindex].pprev, depth, nTipHeight)
    ELSE {pindex}

AutoSelectSyncCheckpoint(chain, idx, depth) ==
    AutoSelectFrom(idx, Tip(chain), depth, idx[Tip(chain)].nHeight)

\* ------------------------------------------------------ checkpoint state
\* The globals of checkpointsync.cpp together with the persisted checkpoint.
State ==
    [hashSyncCheckpoint       |-> hashSyncCheckpoint,
     hashPendingCheckpoint    |-> hashPendingCheckpoint,
     checkpointMessage        |-> checkpointMessage,
     checkpointMessagePending |-> checkpointMessagePending,
     hashInvalidCheckpoint    |-> hashInvalidCheckpoint,
     dbSyncCheckpoint         |-> dbSyncCheckpoint]

\* In Spec every operation is one step: each runs from start to end under
\* LOCK(cs_hashSyncCheckpoint). Spec is a node without the master private key
\* whose persisted public key is current, where SendSyncCheckpoint fails at
\* once and CheckCheckpointPubKey finds nothing to do. SpecPubKey is a node
\* whose persisted public key may be missing or outdated; SpecMaster is the
\* master's node, with SetCheckpointPrivKey and SendSyncCheckpoint; SpecLock
\* is that node with the relaying operations split into the steps of a thread;
\* SpecSelect is the chain with the selection of the next checkpoint.

\* Every operation is given as what it returns (ret), the state it leaves (s)
\* and, where it relays, the hash of the message relayed (relay, Zero if none).

\* ValidateSyncCheckpoint without the comparison of the traced-back block with
\* the current checkpoint: every higher block is taken as a descendant.
ValidateSyncCheckpoint_AnyHigher(s, idx, chain, hashCheckpoint) ==
    IF ~Count(idx, s.hashSyncCheckpoint) THEN [ret |-> FALSE, s |-> s]
    ELSE IF ~Count(idx, hashCheckpoint) THEN [ret |-> FALSE, s |-> s]
    ELSE IF idx[hashCheckpoint].nHeight <= idx[s.hashSyncCheckpoint].nHeight
    THEN IF ~Contains(chain, idx, hashCheckpoint)
         THEN [ret |-> FALSE,
               s |-> [s EXCEPT !.hashInvalidCheckpoint = hashCheckpoint]]
         ELSE [ret |-> FALSE, s |-> s]
    ELSE [ret |-> TRUE, s |-> s]

\* ValidateSyncCheckpoint comparing the traced-back block with the received
\* hash instead of the current checkpoint.
ValidateSyncCheckpoint_WrongHash(s, idx, chain, hashCheckpoint) ==
    IF ~Count(idx, s.hashSyncCheckpoint) THEN [ret |-> FALSE, s |-> s]
    ELSE IF ~Count(idx, hashCheckpoint) THEN [ret |-> FALSE, s |-> s]
    ELSE IF idx[hashCheckpoint].nHeight <= idx[s.hashSyncCheckpoint].nHeight
    THEN IF ~Contains(chain, idx, hashCheckpoint)
         THEN [ret |-> FALSE,
               s |-> [s EXCEPT !.hashInvalidCheckpoint = hashCheckpoint]]
         ELSE [ret |-> FALSE, s |-> s]
    ELSE LET pindex == TraceBack(idx, hashCheckpoint,
                                 idx[s.hashSyncCheckpoint].nHeight)
         IN IF pindex = Zero THEN [ret |-> FALSE, s |-> s]
            ELSE IF pindex # hashCheckpoint
            THEN [ret |-> FALSE,
                  s |-> [s EXCEPT !.hashInvalidCheckpoint = hashCheckpoint]]
            ELSE [ret |-> TRUE, s |-> s]

\* ValidateSyncCheckpoint that fails on a non-descendant without recording it
\* in hashInvalidCheckpoint.
ValidateSyncCheckpoint_NoMarker(s, idx, chain, hashCheckpoint) ==
    IF ~Count(idx, s.hashSyncCheckpoint) THEN [ret |-> FALSE, s |-> s]
    ELSE IF ~Count(idx, hashCheckpoint) THEN [ret |-> FALSE, s |-> s]
    ELSE IF idx[hashCheckpoint].nHeight <= idx[s.hashSyncCheckpoint].nHeight
    THEN IF ~Contains(chain, idx, hashCheckpoint)
         THEN [ret |-> FALSE,
               s |-> [s EXCEPT !.hashInvalidCheckpoint = hashCheckpoint]]
         ELSE [ret |-> FALSE, s |-> s]
    ELSE LET pindex == TraceBack(idx, hashCheckpoint,
                                 idx[s.hashSyncCheckpoint].nHeight)
         IN IF pindex = Zero THEN [ret |-> FALSE, s |-> s]
            ELSE IF pindex # s.hashSyncCheckpoint
            THEN [ret |-> FALSE, s |-> s]
            ELSE [ret |-> TRUE, s |-> s]

\* bool ValidateSyncCheckpoint(uint256 hashCheckpoint)
ValidateSyncCheckpoint(s, idx, chain, hashCheckpoint) ==
    IF ~Count(idx, s.hashSyncCheckpoint) THEN [ret |-> FALSE, s |-> s]
    ELSE IF ~Count(idx, hashCheckpoint) THEN [ret |-> FALSE, s |-> s]
    ELSE IF idx[hashCheckpoint].nHeight <= idx[s.hashSyncCheckpoint].nHeight
    THEN IF ~Contains(chain, idx, hashCheckpoint)
         THEN [ret |-> FALSE,
               s |-> [s EXCEPT !.hashInvalidCheckpoint = hashCheckpoint]]
         ELSE [ret |-> FALSE, s |-> s]
    ELSE LET pindex == TraceBack(idx, hashCheckpoint,
                                 idx[s.hashSyncCheckpoint].nHeight)
         IN IF pindex = Zero THEN [ret |-> FALSE, s |-> s]
            ELSE IF pindex # s.hashSyncCheckpoint
            THEN [ret |-> FALSE,
                  s |-> [s EXCEPT !.hashInvalidCheckpoint = hashCheckpoint]]
            ELSE [ret |-> TRUE, s |-> s]

\* bool WriteSyncCheckpoint(const uint256& hashCheckpoint); dbOk is the result
\* of pblocktree->WriteSyncCheckpoint.
WriteSyncCheckpoint(s, hashCheckpoint, dbOk) ==
    IF ~dbOk THEN [ret |-> FALSE, s |-> s]
    ELSE [ret |-> TRUE,
          s |-> [s EXCEPT !.dbSyncCheckpoint = hashCheckpoint,
                          !.hashSyncCheckpoint = hashCheckpoint]]

\* AcceptPendingSyncCheckpoint that promotes the pending checkpoint without
\* clearing hashPendingCheckpoint.
AcceptPendingSyncCheckpoint_KeepPending(s, idx, chain, dbOk) ==
    LET havePendingCheckpoint ==
            s.hashPendingCheckpoint # Zero /\ Count(idx, s.hashPendingCheckpoint)
        v == ValidateSyncCheckpoint(s, idx, chain, s.hashPendingCheckpoint)
        w == WriteSyncCheckpoint(v.s, s.hashPendingCheckpoint, dbOk)
    IN IF ~havePendingCheckpoint THEN [ret |-> FALSE, s |-> s, relay |-> Zero]
       ELSE IF ~v.ret
       THEN [ret |-> FALSE,
             s |-> [v.s EXCEPT !.hashPendingCheckpoint = Zero,
                               !.checkpointMessagePending = NullMessage],
             relay |-> Zero]
       ELSE IF ~Contains(chain, idx, s.hashPendingCheckpoint)
       THEN [ret |-> FALSE, s |-> v.s, relay |-> Zero]
       ELSE IF ~w.ret THEN [ret |-> FALSE, s |-> w.s, relay |-> Zero]
       ELSE [ret |-> TRUE,
             s |-> [w.s EXCEPT !.checkpointMessage = s.checkpointMessagePending,
                               !.checkpointMessagePending = NullMessage],
             relay |-> IF IsNull(s.checkpointMessagePending) THEN Zero
                       ELSE s.checkpointMessagePending.hashCheckpoint]

\* bool AcceptPendingSyncCheckpoint()
AcceptPendingSyncCheckpoint(s, idx, chain, dbOk) ==
    LET havePendingCheckpoint ==
            s.hashPendingCheckpoint # Zero /\ Count(idx, s.hashPendingCheckpoint)
        v == ValidateSyncCheckpoint(s, idx, chain, s.hashPendingCheckpoint)
        w == WriteSyncCheckpoint(v.s, s.hashPendingCheckpoint, dbOk)
    IN IF ~havePendingCheckpoint THEN [ret |-> FALSE, s |-> s, relay |-> Zero]
       ELSE IF ~v.ret
       THEN [ret |-> FALSE,
             s |-> [v.s EXCEPT !.hashPendingCheckpoint = Zero,
                               !.checkpointMessagePending = NullMessage],
             relay |-> Zero]
       ELSE IF ~Contains(chain, idx, s.hashPendingCheckpoint)
       THEN [ret |-> FALSE, s |-> v.s, relay |-> Zero]
       ELSE IF ~w.ret THEN [ret |-> FALSE, s |-> w.s, relay |-> Zero]
       ELSE [ret |-> TRUE,
             s |-> [w.s EXCEPT !.hashPendingCheckpoint = Zero,
                               !.checkpointMessage = s.checkpointMessagePending,
                               !.checkpointMessagePending = NullMessage],
             relay |-> IF IsNull(s.checkpointMessagePending) THEN Zero
                       ELSE s.checkpointMessagePending.hashCheckpoint]

\* CheckSyncCheckpoint that accepts the block when the checkpoint is not
\* initialised without writing the genesis checkpoint.
CheckSyncCheckpoint_NoInit(s, idx, chain, hashBlock, pindexPrev, dbOk) ==
    LET nHeight == idx[pindexPrev].nHeight + 1 IN
    IF s.hashSyncCheckpoint = Zero \/ ~Count(idx, s.hashSyncCheckpoint)
    THEN [ret |-> TRUE, s |-> s]
    ELSE LET nSync  == idx[s.hashSyncCheckpoint].nHeight
             pindex == TraceBack(idx, pindexPrev, nSync)
         IN IF nHeight > nSync /\ pindex = Zero THEN [ret |-> FALSE, s |-> s]
            ELSE IF nHeight > nSync /\ ~Contains(chain, idx, pindex)
            THEN [ret |-> FALSE, s |-> s]
            ELSE IF nHeight = nSync /\ hashBlock # s.hashSyncCheckpoint
            THEN [ret |-> FALSE, s |-> s]
            ELSE IF nHeight < nSync /\ ~Count(idx, hashBlock)
            THEN [ret |-> FALSE, s |-> s]
            ELSE [ret |-> TRUE, s |-> s]

\* CheckSyncCheckpoint without the comparison at the checkpoint's own height.
CheckSyncCheckpoint_SameHeightAny(s, idx, chain, hashBlock, pindexPrev, dbOk) ==
    LET nHeight == idx[pindexPrev].nHeight + 1 IN
    IF s.hashSyncCheckpoint = Zero \/ ~Count(idx, s.hashSyncCheckpoint)
    THEN [ret |-> TRUE, s |-> WriteSyncCheckpoint(s, hashGenesisBlock, dbOk).s]
    ELSE LET nSync  == idx[s.hashSyncCheckpoint].nHeight
             pindex == TraceBack(idx, pindexPrev, nSync)
         IN IF nHeight > nSync /\ pindex = Zero THEN [ret |-> FALSE, s |-> s]
            ELSE IF nHeight > nSync /\ ~Contains(chain, idx, pindex)
            THEN [ret |-> FALSE, s |-> s]
            ELSE IF nHeight < nSync /\ ~Count(idx, hashBlock)
            THEN [ret |-> FALSE, s |-> s]
            ELSE [ret |-> TRUE, s |-> s]

\* bool CheckSyncCheckpoint(const uint256& hashBlock, const CBlockIndex* pindexPrev)
CheckSyncCheckpoint(s, idx, chain, hashBlock, pindexPrev, dbOk) ==
    LET nHeight == idx[pindexPrev].nHeight + 1 IN
    IF s.hashSyncCheckpoint = Zero \/ ~Count(idx, s.hashSyncCheckpoint)
    THEN [ret |-> TRUE, s |-> WriteSyncCheckpoint(s, hashGenesisBlock, dbOk).s]
    ELSE LET nSync  == idx[s.hashSyncCheckpoint].nHeight
             pindex == TraceBack(idx, pindexPrev, nSync)
         IN IF nHeight > nSync /\ pindex = Zero THEN [ret |-> FALSE, s |-> s]
            ELSE IF nHeight > nSync /\ ~Contains(chain, idx, pindex)
            THEN [ret |-> FALSE, s |-> s]
            ELSE IF nHeight = nSync /\ hashBlock # s.hashSyncCheckpoint
            THEN [ret |-> FALSE, s |-> s]
            ELSE IF nHeight < nSync /\ ~Count(idx, hashBlock)
            THEN [ret |-> FALSE, s |-> s]
            ELSE [ret |-> TRUE, s |-> s]

\* bool ResetSyncCheckpoint()
ResetSyncCheckpoint(s, idx, chain, dbOk) ==
    LET checkpointHash == hashHardenedCheckpoint
        s1 == IF ~Count(idx, checkpointHash)
              THEN [s EXCEPT !.checkpointMessagePending = NullMessage,
                             !.hashPendingCheckpoint = checkpointHash]
              ELSE s
        target == IF Count(idx, checkpointHash) /\ Contains(chain, idx, checkpointHash)
                  THEN checkpointHash ELSE hashGenesisBlock
    IN WriteSyncCheckpoint(s1, target, dbOk)

\* CheckSignature that reads the payload without verifying the signature.
CheckSignature_NoVerify(msg) ==
    [ret |-> TRUE,
     msg |-> [msg EXCEPT !.hashCheckpoint = Unserialize(msg.vchMsg)]]

\* bool CSyncCheckpoint::CheckSignature(): whether the signature verifies, and
\* the message with its hash read back from the signed payload.
CheckSignature(msg) ==
    IF ~Verify(strMasterPubKey, msg.vchMsg, msg.vchSig)
    THEN [ret |-> FALSE, msg |-> msg]
    ELSE [ret |-> TRUE,
          msg |-> [msg EXCEPT !.hashCheckpoint = Unserialize(msg.vchMsg)]]

\* ProcessSyncCheckpoint that keeps the hash of an unknown checkpoint as
\* pending without keeping its message.
ProcessSyncCheckpoint_NoPendingMessage(s, idx, chain, msg, dbOk) ==
    LET c == CheckSignature(msg)
        this == c.msg
        v == ValidateSyncCheckpoint(s, idx, chain, this.hashCheckpoint)
        w == WriteSyncCheckpoint(v.s, this.hashCheckpoint, dbOk)
    IN IF ~c.ret THEN [ret |-> FALSE, s |-> s]
       ELSE IF ~Count(idx, this.hashCheckpoint)
       THEN [ret |-> FALSE,
             s |-> [s EXCEPT !.hashPendingCheckpoint = this.hashCheckpoint]]
       ELSE IF ~v.ret THEN [ret |-> FALSE, s |-> v.s]
       ELSE IF ~w.ret THEN [ret |-> FALSE, s |-> w.s]
       ELSE [ret |-> TRUE,
             s |-> [w.s EXCEPT !.checkpointMessage = this,
                               !.hashPendingCheckpoint = Zero,
                               !.checkpointMessagePending = NullMessage]]

\* ProcessSyncCheckpoint that clears the conflict marker when it accepts a
\* checkpoint.
ProcessSyncCheckpoint_ClearsMarker(s, idx, chain, msg, dbOk) ==
    LET c == CheckSignature(msg)
        this == c.msg
        v == ValidateSyncCheckpoint(s, idx, chain, this.hashCheckpoint)
        w == WriteSyncCheckpoint(v.s, this.hashCheckpoint, dbOk)
    IN IF ~c.ret THEN [ret |-> FALSE, s |-> s]
       ELSE IF ~Count(idx, this.hashCheckpoint)
       THEN [ret |-> FALSE,
             s |-> [s EXCEPT !.hashPendingCheckpoint = this.hashCheckpoint,
                             !.checkpointMessagePending = this]]
       ELSE IF ~v.ret THEN [ret |-> FALSE, s |-> v.s]
       ELSE IF ~w.ret THEN [ret |-> FALSE, s |-> w.s]
       ELSE [ret |-> TRUE,
             s |-> [w.s EXCEPT !.checkpointMessage = this,
                               !.hashPendingCheckpoint = Zero,
                               !.checkpointMessagePending = NullMessage,
                               !.hashInvalidCheckpoint = Zero]]

\* bool CSyncCheckpoint::ProcessSyncCheckpoint(CNode* pfrom)
ProcessSyncCheckpoint(s, idx, chain, msg, dbOk) ==
    LET c == CheckSignature(msg)
        this == c.msg
        v == ValidateSyncCheckpoint(s, idx, chain, this.hashCheckpoint)
        w == WriteSyncCheckpoint(v.s, this.hashCheckpoint, dbOk)
    IN IF ~c.ret THEN [ret |-> FALSE, s |-> s]
       ELSE IF ~Count(idx, this.hashCheckpoint)
       THEN [ret |-> FALSE,
             s |-> [s EXCEPT !.hashPendingCheckpoint = this.hashCheckpoint,
                             !.checkpointMessagePending = this]]
       ELSE IF ~v.ret THEN [ret |-> FALSE, s |-> v.s]
       ELSE IF ~w.ret THEN [ret |-> FALSE, s |-> w.s]
       ELSE [ret |-> TRUE,
             s |-> [w.s EXCEPT !.checkpointMessage = this,
                               !.hashPendingCheckpoint = Zero,
                               !.checkpointMessagePending = NullMessage]]

\* ----------------------------------------------------- master key handling
\* CheckCheckpointPubKey that persists the new key without resetting the
\* checkpoint.
CheckCheckpointPubKey_NoReset(s, idx, chain, dbKey, writeKeyOk, syncOk, dbOk) ==
    IF dbKey = NoKey \/ dbKey # strMasterPubKey
    THEN IF ~writeKeyOk THEN [ret |-> FALSE, s |-> s, dbKey |-> dbKey]
         ELSE IF ~syncOk THEN [ret |-> FALSE, s |-> s, dbKey |-> strMasterPubKey]
         ELSE [ret |-> TRUE, s |-> s, dbKey |-> strMasterPubKey]
    ELSE [ret |-> TRUE, s |-> s, dbKey |-> dbKey]

\* bool CheckCheckpointPubKey(), with dbKey the persisted master public key
\* (NoKey: ReadCheckpointPubKey fails), writeKeyOk and syncOk the outcomes of
\* WriteCheckpointPubKey and Sync; returns also the key persisted afterwards.
CheckCheckpointPubKey(s, idx, chain, dbKey, writeKeyOk, syncOk, dbOk) ==
    IF dbKey = NoKey \/ dbKey # strMasterPubKey
    THEN IF ~writeKeyOk THEN [ret |-> FALSE, s |-> s, dbKey |-> dbKey]
         ELSE IF ~syncOk THEN [ret |-> FALSE, s |-> s, dbKey |-> strMasterPubKey]
         ELSE LET r == ResetSyncCheckpoint(s, idx, chain, dbOk)
              IN [ret |-> r.ret, s |-> r.s, dbKey |-> strMasterPubKey]
    ELSE [ret |-> TRUE, s |-> s, dbKey |-> dbKey]

\* bool SetCheckpointPrivKey(string strPrivKey): the result and the key stored.
SetCheckpointPrivKey(stored, strPrivKey) ==
    IF ~SetString(strPrivKey) THEN [ret |-> FALSE, key |-> stored]
    ELSE IF ~IsValid(strPrivKey) THEN [ret |-> FALSE, key |-> stored]
    ELSE [ret |-> TRUE, key |-> strPrivKey]

\* SendSyncCheckpoint that relays whatever ProcessSyncCheckpoint returns.
SendSyncCheckpoint_RelayAlways(s, idx, chain, privKey, hashCheckpoint, signOk, dbOk) ==
    LET checkpoint == [hashCheckpoint |-> hashCheckpoint,
                       vchMsg |-> Serialize(hashCheckpoint), vchSig |-> <<>>]
        signed == [checkpoint EXCEPT !.vchSig = Sign(privKey, checkpoint.vchMsg)]
        p == ProcessSyncCheckpoint(s, idx, chain, signed, dbOk)
    IN IF privKey = "" THEN [ret |-> FALSE, s |-> s, relay |-> Zero]
       ELSE IF ~SetString(privKey) THEN [ret |-> FALSE, s |-> s, relay |-> Zero]
       ELSE IF ~IsValid(privKey) \/ ~signOk THEN [ret |-> FALSE, s |-> s, relay |-> Zero]
       ELSE [ret |-> TRUE, s |-> p.s, relay |-> hashCheckpoint]

\* bool SendSyncCheckpoint(uint256 hashCheckpoint), with privKey the stored
\* strMasterPrivKey and signOk the outcome of key.Sign for a valid key (an
\* invalid key does not sign); relay is the hash of the message relayed to
\* the peers, Zero when nothing is relayed.
SendSyncCheckpoint(s, idx, chain, privKey, hashCheckpoint, signOk, dbOk) ==
    LET checkpoint == [hashCheckpoint |-> hashCheckpoint,
                       vchMsg |-> Serialize(hashCheckpoint), vchSig |-> <<>>]
        signed == [checkpoint EXCEPT !.vchSig = Sign(privKey, checkpoint.vchMsg)]
        p == ProcessSyncCheckpoint(s, idx, chain, signed, dbOk)
    IN IF privKey = "" THEN [ret |-> FALSE, s |-> s, relay |-> Zero]
       ELSE IF ~SetString(privKey) THEN [ret |-> FALSE, s |-> s, relay |-> Zero]
       ELSE IF ~IsValid(privKey) \/ ~signOk THEN [ret |-> FALSE, s |-> s, relay |-> Zero]
       ELSE IF ~p.ret THEN [ret |-> FALSE, s |-> p.s, relay |-> Zero]
       ELSE [ret |-> TRUE, s |-> p.s, relay |-> hashCheckpoint]

\* ---------------------------------------------------------------- actions
Install(s) ==
    /\ hashSyncCheckpoint' = s.hashSyncCheckpoint
    /\ hashPendingCheckpoint' = s.hashPendingCheckpoint
    /\ checkpointMessage' = s.checkpointMessage
    /\ checkpointMessagePending' = s.checkpointMessagePending
    /\ hashInvalidCheckpoint' = s.hashInvalidCheckpoint
    /\ dbSyncCheckpoint' = s.dbSyncCheckpoint

Init ==
    /\ mapBlockIndex = (hashGenesisBlock :> [pprev |-> Zero, nHeight |-> 0])
    /\ chainActive = <<hashGenesisBlock>>
    /\ hashSyncCheckpoint = Zero
    /\ hashPendingCheckpoint = Zero
    /\ checkpointMessage = NullMessage
    /\ checkpointMessagePending = NullMessage
    /\ hashInvalidCheckpoint = Zero
    /\ dbSyncCheckpoint = Zero
    /\ last = [op |-> "Init", ret |-> TRUE, relay |-> Zero, verified |-> TRUE]
    /\ strMasterPrivKey = ""
    /\ dbCheckpointPubKey = strMasterPubKey
    /\ selected = [depth |-> 0, hash |-> Zero]
    /\ cs_hashSyncCheckpoint = Zero
    /\ pc = [t \in Threads |-> Idle]

\* A block that is not yet known arrives and is added to the block index
\* under its parent, which is known.
AddToBlockIndex ==
    \E hash \in Hashes \ DOMAIN mapBlockIndex :
      LET pprev == hashPrevBlock(hash) IN
        /\ Count(mapBlockIndex, pprev)
        /\ mapBlockIndex' = (hash :> [pprev |-> pprev,
                                      nHeight |-> mapBlockIndex[pprev].nHeight + 1])
                                @@ mapBlockIndex
        /\ last' = [op |-> "AddToBlockIndex", ret |-> TRUE, relay |-> Zero, verified |-> TRUE]
        /\ UNCHANGED <<chainActive, hashSyncCheckpoint, hashPendingCheckpoint,
                       checkpointMessage, checkpointMessagePending,
                       hashInvalidCheckpoint, dbSyncCheckpoint>>
        /\ UNCHANGED <<masterVars, selected, threadVars>>

\* Chain selection makes a known block the tip of the active chain.
SetTip ==
    \E hash \in DOMAIN mapBlockIndex :
        /\ chainActive # ChainTo(mapBlockIndex, hash)
        /\ chainActive' = ChainTo(mapBlockIndex, hash)
        /\ last' = [op |-> "SetTip", ret |-> TRUE, relay |-> Zero, verified |-> TRUE]
        /\ UNCHANGED <<mapBlockIndex, hashSyncCheckpoint, hashPendingCheckpoint,
                       checkpointMessage, checkpointMessagePending,
                       hashInvalidCheckpoint, dbSyncCheckpoint>>
        /\ UNCHANGED <<masterVars, selected, threadVars>>

ProcessSyncCheckpointStep ==
    \E msg \in Messages, dbOk \in BOOLEAN :
        LET r == ProcessSyncCheckpoint(State, mapBlockIndex, chainActive, msg, dbOk)
        IN /\ Install(r.s)
           /\ last' = [op |-> "ProcessSyncCheckpoint", ret |-> r.ret, relay |-> Zero,
                       verified |-> CheckSignature(msg).ret]
           /\ UNCHANGED <<mapBlockIndex, chainActive>>
           /\ UNCHANGED <<masterVars, selected, threadVars>>

AcceptPendingSyncCheckpointStep ==
    \E dbOk \in BOOLEAN :
        LET r == AcceptPendingSyncCheckpoint(State, mapBlockIndex, chainActive, dbOk)
        IN /\ Install(r.s)
           /\ last' = [op |-> "AcceptPendingSyncCheckpoint", ret |-> r.ret,
                       relay |-> r.relay, verified |-> TRUE]
           /\ UNCHANGED <<mapBlockIndex, chainActive>>
           /\ UNCHANGED <<masterVars, selected, threadVars>>

\* A block, new or already known, whose parent is known is checked against
\* the checkpoint.
CheckSyncCheckpointStep ==
    \E hashBlock \in Hashes, dbOk \in BOOLEAN :
        LET pindexPrev == hashPrevBlock(hashBlock)
            r == CheckSyncCheckpoint(State, mapBlockIndex, chainActive,
                                     hashBlock, pindexPrev, dbOk)
        IN /\ Count(mapBlockIndex, pindexPrev)
           /\ Install(r.s)
           /\ last' = [op |-> "CheckSyncCheckpoint", ret |-> r.ret, relay |-> Zero,
                       verified |-> TRUE]
           /\ UNCHANGED <<mapBlockIndex, chainActive>>
           /\ UNCHANGED <<masterVars, selected, threadVars>>

ResetSyncCheckpointStep ==
    \E dbOk \in BOOLEAN :
        LET r == ResetSyncCheckpoint(State, mapBlockIndex, chainActive, dbOk)
        IN /\ Install(r.s)
           /\ last' = [op |-> "ResetSyncCheckpoint", ret |-> r.ret, relay |-> Zero,
                       verified |-> TRUE]
           /\ UNCHANGED <<mapBlockIndex, chainActive>>
           /\ UNCHANGED <<masterVars, selected, threadVars>>

Next ==
    \/ AddToBlockIndex
    \/ SetTip
    \/ ProcessSyncCheckpointStep
    \/ AcceptPendingSyncCheckpointStep
    \/ CheckSyncCheckpointStep
    \/ ResetSyncCheckpointStep

Spec == Init /\ [][Next]_vars

\* --------------------------------------------- the persisted public key
\* A node at whose start the database holds no master public key, the
\* compiled-in one or an older one.
InitPubKey ==
    /\ mapBlockIndex = (hashGenesisBlock :> [pprev |-> Zero, nHeight |-> 0])
    /\ chainActive = <<hashGenesisBlock>>
    /\ hashSyncCheckpoint = Zero
    /\ hashPendingCheckpoint = Zero
    /\ checkpointMessage = NullMessage
    /\ checkpointMessagePending = NullMessage
    /\ hashInvalidCheckpoint = Zero
    /\ dbSyncCheckpoint = Zero
    /\ last = [op |-> "Init", ret |-> TRUE, relay |-> Zero, verified |-> TRUE]
    /\ strMasterPrivKey = ""
    /\ dbCheckpointPubKey \in PubKeys
    /\ selected = [depth |-> 0, hash |-> Zero]
    /\ cs_hashSyncCheckpoint = Zero
    /\ pc = [t \in Threads |-> Idle]

\* verified records whether the persisted key was the compiled-in one.
CheckCheckpointPubKeyStep ==
    \E writeKeyOk \in BOOLEAN, syncOk \in BOOLEAN, dbOk \in BOOLEAN :
        LET r == CheckCheckpointPubKey(State, mapBlockIndex, chainActive,
                                       dbCheckpointPubKey, writeKeyOk, syncOk, dbOk)
        IN /\ Install(r.s)
           /\ dbCheckpointPubKey' = r.dbKey
           /\ last' = [op |-> "CheckCheckpointPubKey", ret |-> r.ret, relay |-> Zero,
                       verified |-> (dbCheckpointPubKey = strMasterPubKey)]
           /\ UNCHANGED <<mapBlockIndex, chainActive, strMasterPrivKey,
                          selected, threadVars>>

NextPubKey == Next \/ CheckCheckpointPubKeyStep

SpecPubKey == InitPubKey /\ [][NextPubKey]_vars

\* ------------------------------------------------------ the master's node
SetCheckpointPrivKeyStep ==
    \E strPrivKey \in PrivKeys :
        LET r == SetCheckpointPrivKey(strMasterPrivKey, strPrivKey)
        IN /\ strMasterPrivKey' = r.key
           /\ last' = [op |-> "SetCheckpointPrivKey", ret |-> r.ret, relay |-> Zero,
                       verified |-> TRUE]
           /\ UNCHANGED <<mapBlockIndex, chainActive, hashSyncCheckpoint,
                          hashPendingCheckpoint, checkpointMessage,
                          checkpointMessagePending, hashInvalidCheckpoint,
                          dbSyncCheckpoint, dbCheckpointPubKey, selected, threadVars>>

SendSyncCheckpointStep ==
    \E hashCheckpoint \in Hashes, signOk \in BOOLEAN, dbOk \in BOOLEAN :
        LET r == SendSyncCheckpoint(State, mapBlockIndex, chainActive,
                                    strMasterPrivKey, hashCheckpoint, signOk, dbOk)
        IN /\ Install(r.s)
           /\ last' = [op |-> "SendSyncCheckpoint", ret |-> r.ret, relay |-> r.relay,
                       verified |-> TRUE]
           /\ UNCHANGED <<mapBlockIndex, chainActive, masterVars, selected, threadVars>>

\* The master's node signs the checkpoints itself: they reach it through
\* SendSyncCheckpoint, which hands them to ProcessSyncCheckpoint, and not
\* from peers.
NextMaster ==
    \/ AddToBlockIndex
    \/ SetTip
    \/ AcceptPendingSyncCheckpointStep
    \/ CheckSyncCheckpointStep
    \/ ResetSyncCheckpointStep
    \/ SetCheckpointPrivKeyStep
    \/ SendSyncCheckpointStep

SpecMaster == Init /\ [][NextMaster]_vars

\* ------------------------------------------------- threads and the lock
\* The master's node with its key set. Every checkpoint operation runs on a
\* thread under LOCK(cs_hashSyncCheckpoint); the two operations that relay
\* are split where the relay to the peers begins, since a peer can stall it.
InitLock ==
    /\ mapBlockIndex = (hashGenesisBlock :> [pprev |-> Zero, nHeight |-> 0])
    /\ chainActive = <<hashGenesisBlock>>
    /\ hashSyncCheckpoint = Zero
    /\ hashPendingCheckpoint = Zero
    /\ checkpointMessage = NullMessage
    /\ checkpointMessagePending = NullMessage
    /\ hashInvalidCheckpoint = Zero
    /\ dbSyncCheckpoint = Zero
    /\ last = [op |-> "Init", ret |-> TRUE, relay |-> Zero, verified |-> TRUE]
    /\ strMasterPrivKey = strMasterPubKey
    /\ dbCheckpointPubKey = strMasterPubKey
    /\ selected = [depth |-> 0, hash |-> Zero]
    /\ cs_hashSyncCheckpoint = Zero
    /\ pc = [t \in Threads |-> Idle]

\* AcceptPendingSyncCheckpoint up to the relay: LOCK(cs_hashSyncCheckpoint) at
\* function scope, the promotion, and the test of checkpointMessage.IsNull().
\* Every return releases the lock; going on to the relay keeps it.
AcceptPendingSyncCheckpointLocked(t) ==
    /\ pc[t] = Idle
    /\ cs_hashSyncCheckpoint = Zero
    /\ \E dbOk \in BOOLEAN :
        LET r == AcceptPendingSyncCheckpoint(State, mapBlockIndex, chainActive, dbOk)
        IN /\ Install(r.s)
           /\ last' = [op |-> "AcceptPendingSyncCheckpoint", ret |-> r.ret,
                       relay |-> Zero, verified |-> TRUE]
           /\ IF r.relay # Zero
              THEN /\ cs_hashSyncCheckpoint' = t
                   /\ pc' = [pc EXCEPT ![t] =
                                [at |-> "AcceptPendingSyncCheckpoint:RelayTo",
                                 hash |-> r.relay,
                                 written |-> (r.s.dbSyncCheckpoint = r.relay)]]
              ELSE UNCHANGED threadVars
           /\ UNCHANGED <<mapBlockIndex, chainActive, masterVars, selected>>

\* BOOST_FOREACH(CNode* pnode, vNodes) checkpointMessage.RelayTo(pnode);
\* return true; -- the return ends the scope of the lock.
AcceptPendingSyncCheckpointRelay(t) ==
    /\ pc[t].at = "AcceptPendingSyncCheckpoint:RelayTo"
    /\ last' = [op |-> "RelayTo", ret |-> TRUE,
                relay |-> checkpointMessage.hashCheckpoint, verified |-> TRUE]
    /\ cs_hashSyncCheckpoint' = Zero
    /\ pc' = [pc EXCEPT ![t] = Idle]
    /\ UNCHANGED <<mapBlockIndex, chainActive, hashSyncCheckpoint,
                   hashPendingCheckpoint, checkpointMessage,
                   checkpointMessagePending, hashInvalidCheckpoint,
                   dbSyncCheckpoint, masterVars, selected>>

\* SendSyncCheckpoint up to the relay: signing and ProcessSyncCheckpoint(NULL),
\* which takes the lock and releases it when it returns.
SendSyncCheckpointLocked(t) ==
    /\ pc[t] = Idle
    /\ cs_hashSyncCheckpoint = Zero
    /\ \E hashCheckpoint \in Hashes, signOk \in BOOLEAN, dbOk \in BOOLEAN :
        LET r == SendSyncCheckpoint(State, mapBlockIndex, chainActive,
                                    strMasterPrivKey, hashCheckpoint, signOk, dbOk)
        IN /\ Install(r.s)
           /\ last' = [op |-> "SendSyncCheckpoint", ret |-> r.ret,
                       relay |-> Zero, verified |-> TRUE]
           /\ pc' = IF r.relay # Zero
                    THEN [pc EXCEPT ![t] =
                            [at |-> "SendSyncCheckpoint:RelayTo",
                             hash |-> r.relay,
                             written |-> (r.s.dbSyncCheckpoint = r.relay)]]
                    ELSE pc
           /\ UNCHANGED <<mapBlockIndex, chainActive, masterVars, selected,
                          cs_hashSyncCheckpoint>>

\* { LOCK(cs_vNodes); BOOST_FOREACH(CNode* pnode, vNodes)
\*       checkpoint.RelayTo(pnode); } return true;
SendSyncCheckpointRelay(t) ==
    /\ pc[t].at = "SendSyncCheckpoint:RelayTo"
    /\ last' = [op |-> "RelayTo", ret |-> TRUE, relay |-> pc[t].hash,
                verified |-> TRUE]
    /\ pc' = [pc EXCEPT ![t] = Idle]
    /\ UNCHANGED <<mapBlockIndex, chainActive, hashSyncCheckpoint,
                   hashPendingCheckpoint, checkpointMessage,
                   checkpointMessagePending, hashInvalidCheckpoint,
                   dbSyncCheckpoint, masterVars, selected, cs_hashSyncCheckpoint>>

\* The operations that take the lock and do not relay run when it is free.
CheckSyncCheckpointLocked == cs_hashSyncCheckpoint = Zero /\ CheckSyncCheckpointStep
ResetSyncCheckpointLocked == cs_hashSyncCheckpoint = Zero /\ ResetSyncCheckpointStep

NextLock ==
    \/ AddToBlockIndex
    \/ SetTip
    \/ CheckSyncCheckpointLocked
    \/ ResetSyncCheckpointLocked
    \/ \E t \in Threads : AcceptPendingSyncCheckpointLocked(t)
    \/ \E t \in Threads : AcceptPendingSyncCheckpointRelay(t)
    \/ \E t \in Threads : SendSyncCheckpointLocked(t)
    \/ \E t \in Threads : SendSyncCheckpointRelay(t)

SpecLock == InitLock /\ [][NextLock]_vars

\* ------------------------------------------------- checkpoint selection
\* The checkpoint master's selection of the next checkpoint, on the chain
\* as block arrival and chain selection shape it.
AutoSelectSyncCheckpointStep ==
    \E depth \in Depths :
        \E hash \in AutoSelectSyncCheckpoint(chainActive, mapBlockIndex, depth) :
            /\ selected' = [depth |-> depth, hash |-> hash]
            /\ last' = [op |-> "AutoSelectSyncCheckpoint", ret |-> TRUE,
                        relay |-> Zero, verified |-> TRUE]
            /\ UNCHANGED <<mapBlockIndex, chainActive, hashSyncCheckpoint,
                           hashPendingCheckpoint, checkpointMessage,
                           checkpointMessagePending, hashInvalidCheckpoint,
                           dbSyncCheckpoint, masterVars, threadVars>>

NextSelect == AddToBlockIndex \/ SetTip \/ AutoSelectSyncCheckpointStep

SpecSelect == Init /\ [][NextSelect]_vars

\* ------------------------------------------------------------ type check
TypeOK ==
    /\ DOMAIN mapBlockIndex \subseteq Hashes
    /\ hashSyncCheckpoint \in Hashes \cup {Zero}
    /\ hashPendingCheckpoint \in Hashes \cup {Zero}
    /\ hashInvalidCheckpoint \in Hashes \cup {Zero}
    /\ dbSyncCheckpoint = hashSyncCheckpoint

\* ------------------------------------------------- notions used by claims
\* Block a is block d or one of its ancestors (following pprev from d).
IsAncestorOrSelf(idx, a, d) ==
    \E i \in 1..Len(ChainTo(idx, d)) : ChainTo(idx, d)[i] = a

HeightOf(hash) == mapBlockIndex[hash].nHeight

\* The active checkpoint is set and its block is in the block index.
ActiveKnown == hashSyncCheckpoint # Zero /\ Count(mapBlockIndex, hashSyncCheckpoint)

\* The messages whose signature verifies and whose payload names hash.
ValidMessagesFor(hash) ==
    {msg \in Messages : CheckSignature(msg).ret /\ Unserialize(msg.vchMsg) = hash}

\* ----------------------------------------------------------------- C1
\* C1: with an active checkpoint C in the block index, CheckSyncCheckpoint
\* accepts a new block of height parent.height+1 > C.height only if the block
\* descends from C (the ancestor of its parent at C's height is C).
C1_OnlyDescendantsAccepted ==
    ActiveKnown =>
        \A hashBlock \in Hashes \ DOMAIN mapBlockIndex, dbOk \in BOOLEAN :
            LET pindexPrev == hashPrevBlock(hashBlock) IN
            (/\ Count(mapBlockIndex, pindexPrev)
             /\ HeightOf(pindexPrev) + 1 > HeightOf(hashSyncCheckpoint)
             /\ CheckSyncCheckpoint(State, mapBlockIndex, chainActive,
                                    hashBlock, pindexPrev, dbOk).ret)
            => IsAncestorOrSelf(mapBlockIndex, hashSyncCheckpoint, pindexPrev)

\* ----------------------------------------------------------------- C2
\* C2: every change of the active checkpoint made by ProcessSyncCheckpoint or
\* AcceptPendingSyncCheckpoint goes to a block of strictly greater height that
\* has the old checkpoint as its ancestor; and no step other than a reset (or
\* the initialisation to genesis) lowers the height of the active checkpoint.
C2_StrictDescendantStep ==
    [][/\ (/\ last'.op \in {"ProcessSyncCheckpoint", "AcceptPendingSyncCheckpoint"}
           /\ hashSyncCheckpoint' # hashSyncCheckpoint)
          => /\ Count(mapBlockIndex, hashSyncCheckpoint)
             /\ Count(mapBlockIndex, hashSyncCheckpoint')
             /\ HeightOf(hashSyncCheckpoint') > HeightOf(hashSyncCheckpoint)
             /\ IsAncestorOrSelf(mapBlockIndex, hashSyncCheckpoint, hashSyncCheckpoint')
       /\ (/\ last'.op # "ResetSyncCheckpoint"
           /\ ActiveKnown)
          => /\ Count(mapBlockIndex', hashSyncCheckpoint')
             /\ mapBlockIndex'[hashSyncCheckpoint'].nHeight >= HeightOf(hashSyncCheckpoint)
      ]_vars

\* A pending checkpoint at height 2 or more was promoted: the active
\* checkpoint moved up from a lower one.
C2_Witness ==
    /\ last.op = "AcceptPendingSyncCheckpoint"
    /\ last.ret
    /\ ActiveKnown
    /\ HeightOf(hashSyncCheckpoint) >= 2

\* ----------------------------------------------------------------- C3
\* C3: when the active checkpoint C1 and a candidate C2 are in the index, C2 is
\* higher than C1 and descends from C1 on the canonical chain, then
\* ValidateSyncCheckpoint(C2) returns true and ProcessSyncCheckpoint of any
\* signature-valid message for C2 whose durable write succeeds returns true
\* and leaves C2 active.
C3_DescendantAccepted ==
    ActiveKnown =>
        \A c2 \in DOMAIN mapBlockIndex :
            (/\ HeightOf(c2) > HeightOf(hashSyncCheckpoint)
             /\ IsAncestorOrSelf(mapBlockIndex, hashSyncCheckpoint, c2)
             /\ Contains(chainActive, mapBlockIndex, c2))
            => /\ ValidateSyncCheckpoint(State, mapBlockIndex, chainActive, c2).ret
               /\ \A msg \in ValidMessagesFor(c2) :
                    LET r == ProcessSyncCheckpoint(State, mapBlockIndex,
                                                   chainActive, msg, TRUE)
                    IN r.ret /\ r.s.hashSyncCheckpoint = c2

\* ProcessSyncCheckpoint accepted a checkpoint on the canonical chain above
\* genesis.
C3_Witness ==
    /\ last.op = "ProcessSyncCheckpoint"
    /\ last.ret
    /\ ActiveKnown
    /\ hashSyncCheckpoint # hashGenesisBlock
    /\ Contains(chainActive, mapBlockIndex, hashSyncCheckpoint)
    /\ checkpointMessage = SignedMessage(hashSyncCheckpoint)

\* ----------------------------------------------------------------- C4
\* C4: when the active checkpoint C1 and a candidate C2 are in the index, C2 is
\* higher than C1 and the ancestor of C2 at C1's height is not C1, validation
\* fails and sets the conflict marker to C2, and ProcessSyncCheckpoint of a
\* signature-valid message for C2 changes nothing else: the active checkpoint,
\* its persisted value and the pending entry stay as they were.
C4_NonDescendantRejected ==
    ActiveKnown =>
        \A c2 \in DOMAIN mapBlockIndex :
            (/\ HeightOf(c2) > HeightOf(hashSyncCheckpoint)
             /\ ~IsAncestorOrSelf(mapBlockIndex, hashSyncCheckpoint, c2))
            => LET v == ValidateSyncCheckpoint(State, mapBlockIndex, chainActive, c2)
               IN /\ ~v.ret
                  /\ v.s = [State EXCEPT !.hashInvalidCheckpoint = c2]
                  /\ \A msg \in ValidMessagesFor(c2), dbOk \in BOOLEAN :
                       LET r == ProcessSyncCheckpoint(State, mapBlockIndex,
                                                      chainActive, msg, dbOk)
                       IN /\ ~r.ret
                          /\ r.s = [State EXCEPT !.hashInvalidCheckpoint = c2]

\* ProcessSyncCheckpoint rejected a higher checkpoint that does not descend
\* from the active one and marked it.
C4_Witness ==
    /\ last.op = "ProcessSyncCheckpoint"
    /\ last.verified
    /\ ~last.ret
    /\ ActiveKnown
    /\ hashInvalidCheckpoint # Zero
    /\ HeightOf(hashInvalidCheckpoint) > HeightOf(hashSyncCheckpoint)
    /\ ~IsAncestorOrSelf(mapBlockIndex, hashSyncCheckpoint, hashInvalidCheckpoint)

\* ----------------------------------------------------------------- C5
\* C5: when the active checkpoint C1 and a candidate C2 are in the index and C2
\* is not higher than C1: if C2 is C1 or an ancestor of C1, validation returns
\* false and ProcessSyncCheckpoint changes no part of the state; if C2 is not
\* an ancestor of C1, the conflict marker is set to C2.
C5_OlderAncestorIgnored ==
    ActiveKnown =>
        \A c2 \in DOMAIN mapBlockIndex :
            HeightOf(c2) <= HeightOf(hashSyncCheckpoint)
            => LET v == ValidateSyncCheckpoint(State, mapBlockIndex, chainActive, c2)
               IN /\ ~v.ret
                  /\ IsAncestorOrSelf(mapBlockIndex, c2, hashSyncCheckpoint)
                     => /\ v.s = State
                        /\ \A msg \in ValidMessagesFor(c2), dbOk \in BOOLEAN :
                             ProcessSyncCheckpoint(State, mapBlockIndex, chainActive,
                                                   msg, dbOk).s = State
                  /\ ~IsAncestorOrSelf(mapBlockIndex, c2, hashSyncCheckpoint)
                     => v.s.hashInvalidCheckpoint = c2

\* ----------------------------------------------------------------- C6
\* C6: from any reachable state, processing the same signature-valid message
\* twice in a row leaves the whole checkpoint state as processing it once
\* does, whether or not the named block is known.
C6_ProcessIdempotent ==
    \A msg \in Messages, dbOk \in BOOLEAN :
        CheckSignature(msg).ret =>
            LET once  == ProcessSyncCheckpoint(State, mapBlockIndex, chainActive,
                                               msg, dbOk)
                twice == ProcessSyncCheckpoint(once.s, mapBlockIndex, chainActive,
                                               msg, dbOk)
            IN twice.s = once.s

\* ----------------------------------------------------------------- C7
\* The pending checkpoint is in the index and ValidateSyncCheckpoint accepts it.
PendingValidates ==
    /\ hashPendingCheckpoint # Zero
    /\ Count(mapBlockIndex, hashPendingCheckpoint)
    /\ ValidateSyncCheckpoint(State, mapBlockIndex, chainActive,
                              hashPendingCheckpoint).ret

\* The same for a pending checkpoint that was stored from a signed message.
PendingRevalidates ==
    /\ PendingValidates
    /\ checkpointMessagePending = SignedMessage(hashPendingCheckpoint)

\* A signature-valid message for a block that is not in the index is stored as
\* pending, hash and message, and changes nothing else.
UnknownStoredAsPending ==
    \A msg \in Messages, dbOk \in BOOLEAN :
        LET c == CheckSignature(msg) IN
        (c.ret /\ ~Count(mapBlockIndex, c.msg.hashCheckpoint))
        => ProcessSyncCheckpoint(State, mapBlockIndex, chainActive, msg, dbOk).s
           = [State EXCEPT !.hashPendingCheckpoint = c.msg.hashCheckpoint,
                           !.checkpointMessagePending = c.msg]

\* C7 as claimed: a signature-valid checkpoint for an unknown block is stored
\* as pending and leaves the active checkpoint alone; once its block is in the
\* index and re-validation succeeds, the next AcceptPendingSyncCheckpoint (its
\* durable write succeeding) makes it active and clears the pending slot.
C7_PendingPromoted ==
    /\ UnknownStoredAsPending
    /\ PendingRevalidates
       => LET r == AcceptPendingSyncCheckpoint(State, mapBlockIndex, chainActive, TRUE)
          IN /\ r.s.hashSyncCheckpoint = hashPendingCheckpoint
             /\ r.s.hashPendingCheckpoint = Zero
             /\ r.s.checkpointMessagePending = NullMessage

\* C7 amended: a signature-valid checkpoint for an unknown block is stored as
\* pending and leaves the active checkpoint alone; once its block is in the
\* index and on the active chain and re-validation succeeds, the next
\* AcceptPendingSyncCheckpoint whose durable write succeeds makes it active
\* and clears the pending slot; while the block is off the active chain, or
\* when the write fails, the checkpoint stays pending and the active
\* checkpoint stays as it was.
C7_PendingPromotedOnActiveChain ==
    /\ UnknownStoredAsPending
    /\ PendingRevalidates
       => \A dbOk \in BOOLEAN :
            LET r == AcceptPendingSyncCheckpoint(State, mapBlockIndex, chainActive, dbOk)
            IN IF dbOk /\ Contains(chainActive, mapBlockIndex, hashPendingCheckpoint)
               THEN /\ r.ret
                    /\ r.s.hashSyncCheckpoint = hashPendingCheckpoint
                    /\ r.s.hashPendingCheckpoint = Zero
                    /\ r.s.checkpointMessagePending = NullMessage
               ELSE /\ ~r.ret
                    /\ r.s = State

\* A checkpoint that arrived before its block was promoted (and relayed) by
\* AcceptPendingSyncCheckpoint, and the pending slot is empty.
C7_Witness ==
    /\ last.op = "AcceptPendingSyncCheckpoint"
    /\ last.ret
    /\ last.relay # Zero
    /\ last.relay = hashSyncCheckpoint
    /\ hashPendingCheckpoint = Zero
    /\ checkpointMessagePending = NullMessage

\* ----------------------------------------------------------------- C8
\* C8: for every message whose signature does not verify against the master
\* public key, whatever hash it carries, ProcessSyncCheckpoint returns false
\* and changes no part of the checkpoint state.
C8_BadSignatureNoEffect ==
    \A msg \in Messages, dbOk \in BOOLEAN :
        ~Verify(strMasterPubKey, msg.vchMsg, msg.vchSig)
        => LET r == ProcessSyncCheckpoint(State, mapBlockIndex, chainActive,
                                          msg, dbOk)
           IN ~r.ret /\ r.s = State

\* A message that failed verification was processed while an active
\* checkpoint was set, and was refused.
C8_Witness ==
    /\ last.op = "ProcessSyncCheckpoint"
    /\ ~last.verified
    /\ ~last.ret
    /\ last.relay = Zero
    /\ ActiveKnown

\* ----------------------------------------------------------------- C9
\* What must be unchanged when a durable write fails: the active checkpoint
\* and the pending entry.
SameInMemory(s) ==
    /\ s.hashSyncCheckpoint = hashSyncCheckpoint
    /\ s.hashPendingCheckpoint = hashPendingCheckpoint
    /\ s.checkpointMessagePending = checkpointMessagePending

\* The operation reaches its call of WriteSyncCheckpoint in the current state.
ProcessWrites(msg) ==
    LET c == CheckSignature(msg) IN
    /\ c.ret
    /\ Count(mapBlockIndex, c.msg.hashCheckpoint)
    /\ ValidateSyncCheckpoint(State, mapBlockIndex, chainActive,
                              c.msg.hashCheckpoint).ret
AcceptPendingWrites ==
    PendingValidates /\ Contains(chainActive, mapBlockIndex, hashPendingCheckpoint)
CheckWrites ==
    hashSyncCheckpoint = Zero \/ ~Count(mapBlockIndex, hashSyncCheckpoint)

\* C9: in every operation that changes the active checkpoint, a failed durable
\* write leaves the active checkpoint and the pending entry as they were, and
\* the active checkpoint changes only when the durable write succeeded.
C9_WriteThenCommit ==
    /\ \A msg \in Messages :
         ProcessWrites(msg) =>
            SameInMemory(ProcessSyncCheckpoint(State, mapBlockIndex, chainActive,
                                               msg, FALSE).s)
    /\ AcceptPendingWrites =>
         SameInMemory(AcceptPendingSyncCheckpoint(State, mapBlockIndex,
                                                  chainActive, FALSE).s)
    /\ SameInMemory(ResetSyncCheckpoint(State, mapBlockIndex, chainActive, FALSE).s)
    /\ \A hashBlock \in Hashes :
         (Count(mapBlockIndex, hashPrevBlock(hashBlock)) /\ CheckWrites) =>
            SameInMemory(CheckSyncCheckpoint(State, mapBlockIndex, chainActive,
                                             hashBlock, hashPrevBlock(hashBlock),
                                             FALSE).s)
    /\ \A dbOk \in BOOLEAN :
         LET Committed(s) == s.hashSyncCheckpoint # hashSyncCheckpoint
                             => dbOk /\ s.dbSyncCheckpoint = s.hashSyncCheckpoint
         IN /\ \A msg \in Messages :
                 Committed(ProcessSyncCheckpoint(State, mapBlockIndex, chainActive,
                                                 msg, dbOk).s)
            /\ Committed(AcceptPendingSyncCheckpoint(State, mapBlockIndex,
                                                     chainActive, dbOk).s)
            /\ Committed(ResetSyncCheckpoint(State, mapBlockIndex, chainActive,
                                             dbOk).s)
            /\ \A hashBlock \in Hashes :
                 Count(mapBlockIndex, hashPrevBlock(hashBlock)) =>
                    Committed(CheckSyncCheckpoint(State, mapBlockIndex, chainActive,
                                                  hashBlock, hashPrevBlock(hashBlock),
                                                  dbOk).s)

\* ---------------------------------------------------------------- C10
\* C10: whenever the durable write fails inside a checkpoint operation, the
\* operation returns failure; this includes CheckSyncCheckpoint's
\* initialisation of the checkpoint to genesis.
C10_WriteFailureFailsOutward ==
    /\ \A msg \in Messages :
         ProcessWrites(msg) =>
            ~ProcessSyncCheckpoint(State, mapBlockIndex, chainActive, msg, FALSE).ret
    /\ AcceptPendingWrites =>
         ~AcceptPendingSyncCheckpoint(State, mapBlockIndex, chainActive, FALSE).ret
    /\ ~ResetSyncCheckpoint(State, mapBlockIndex, chainActive, FALSE).ret
    /\ \A hashBlock \in Hashes :
         (Count(mapBlockIndex, hashPrevBlock(hashBlock)) /\ CheckWrites) =>
            ~CheckSyncCheckpoint(State, mapBlockIndex, chainActive, hashBlock,
                                 hashPrevBlock(hashBlock), FALSE).ret

\* ---------------------------------------------------------------- C11
\* The hardened checkpoint block is known and is the active checkpoint.
HardenedActive(s) ==
    /\ Count(mapBlockIndex, hashHardenedCheckpoint)
    /\ s.hashSyncCheckpoint = hashHardenedCheckpoint
\* The hardened checkpoint block is not known: the active checkpoint is
\* genesis and the hardened hash is queued as pending.
HardenedQueued(s) ==
    /\ ~Count(mapBlockIndex, hashHardenedCheckpoint)
    /\ s.hashSyncCheckpoint = hashGenesisBlock
    /\ s.hashPendingCheckpoint = hashHardenedCheckpoint
\* The hardened checkpoint block is known but not on the active chain: the
\* active checkpoint is genesis and the pending slot is as it was.
HardenedOffChain(s) ==
    /\ Count(mapBlockIndex, hashHardenedCheckpoint)
    /\ ~Contains(chainActive, mapBlockIndex, hashHardenedCheckpoint)
    /\ s.hashSyncCheckpoint = hashGenesisBlock
    /\ s.hashPendingCheckpoint = hashPendingCheckpoint
    /\ s.checkpointMessagePending = checkpointMessagePending

\* C11 as claimed: whenever the persisted master public key is missing or
\* differs from the compiled-in one, CheckCheckpointPubKey (its writes
\* succeeding) persists the new key and resets the checkpoint so that exactly
\* one of two outcomes holds: the hardened block is known and active, or it
\* is not known, genesis is active and the hardened hash is pending.
C11_ResetToHardenedOrQueued ==
    \A dbKey \in PubKeys \ {strMasterPubKey} :
        LET r == CheckCheckpointPubKey(State, mapBlockIndex, chainActive,
                                       dbKey, TRUE, TRUE, TRUE)
        IN /\ r.ret
           /\ r.dbKey = strMasterPubKey
           /\ r.s.dbSyncCheckpoint = r.s.hashSyncCheckpoint
           /\ HardenedActive(r.s) # HardenedQueued(r.s)

\* C11 amended: under the same conditions exactly one of three outcomes
\* holds: the hardened block is known, on the active chain and active; or it
\* is not known, genesis is active and the hardened hash is pending without a
\* message; or it is known but not on the active chain, genesis is active and
\* the pending slot is unchanged.
C11_ResetToHardenedQueuedOrGenesis ==
    \A dbKey \in PubKeys \ {strMasterPubKey} :
        LET r == CheckCheckpointPubKey(State, mapBlockIndex, chainActive,
                                       dbKey, TRUE, TRUE, TRUE)
            a == /\ HardenedActive(r.s)
                 /\ Contains(chainActive, mapBlockIndex, hashHardenedCheckpoint)
            b == HardenedQueued(r.s) /\ IsNull(r.s.checkpointMessagePending)
            c == HardenedOffChain(r.s)
        IN /\ r.ret
           /\ r.dbKey = strMasterPubKey
           /\ r.s.dbSyncCheckpoint = r.s.hashSyncCheckpoint
           /\ a \/ b \/ c
           /\ ~(a /\ b) /\ ~(a /\ c) /\ ~(b /\ c)

\* CheckCheckpointPubKey found another key persisted and reset the checkpoint
\* while the hardened block was known but not on the active chain.
C11_Witness ==
    /\ last.op = "CheckCheckpointPubKey"
    /\ ~last.verified
    /\ last.ret
    /\ dbCheckpointPubKey = strMasterPubKey
    /\ HardenedOffChain(State)

\* ---------------------------------------------------------------- C12
\* C12: for every chain and every depth >= 0, AutoSelectSyncCheckpoint returns
\* an ancestor-or-self of the tip: the tip itself for depth 0; for depth > 0
\* the block at height tip.height - depth, or genesis when tip.height < depth.
C12_AutoSelectAtDepth ==
    \A depth \in Depths :
        \A hash \in AutoSelectSyncCheckpoint(chainActive, mapBlockIndex, depth) :
            LET nTipHeight == HeightOf(Tip(chainActive)) IN
            /\ IsAncestorOrSelf(mapBlockIndex, hash, Tip(chainActive))
            /\ depth = 0 => hash = Tip(chainActive)
            /\ depth > 0 =>
                 IF nTipHeight < depth THEN hash = hashGenesisBlock
                 ELSE HeightOf(hash) = nTipHeight - depth

\* ---------------------------------------------------------------- C13
\* The values of hashSyncCheckpoint that count as not initialised: zero, or a
\* hash (such as one loaded at start) whose block is not in the index.
Uninitialised == ({Zero} \cup Hashes) \ DOMAIN mapBlockIndex

Relaying(t) ==
    pc[t].at \in {"SendSyncCheckpoint:RelayTo", "AcceptPendingSyncCheckpoint:RelayTo"}

\* C14: in both operations that relay, a thread that is at the relay has
\* released the checkpoint lock, and the checkpoint it relays had been
\* durably written when it got there; no thread relays while holding the
\* lock.
C14_RelayAfterUnlockAndWrite ==
    \A t \in Threads :
        Relaying(t) => /\ cs_hashSyncCheckpoint # t
                       /\ pc[t].written

\* ---------------------------------------------------------------- C15
\* C15: SendSyncCheckpoint(hash) relays only after ProcessSyncCheckpoint has
\* accepted the checkpoint locally: when the master key is absent, does not
\* decode, is invalid or is not the master's, signing fails, the block is
\* unknown (then stored as pending), validation fails or ignores the
\* checkpoint, or the durable write fails, it returns failure and relays
\* nothing; and whenever it relays, it relays the sent hash, returns success
\* and the active checkpoint, in memory and persisted, is the sent hash.
C15_RelayOnlyAfterAcceptance ==
    \A privKey \in PrivKeys, hash \in Hashes, signOk \in BOOLEAN, dbOk \in BOOLEAN :
        LET r == SendSyncCheckpoint(State, mapBlockIndex, chainActive,
                                    privKey, hash, signOk, dbOk)
            fails == \/ privKey = ""
                     \/ ~SetString(privKey)
                     \/ ~IsValid(privKey)
                     \/ privKey # strMasterPubKey
                     \/ ~signOk
                     \/ ~Count(mapBlockIndex, hash)
                     \/ ~ValidateSyncCheckpoint(State, mapBlockIndex, chainActive, hash).ret
                     \/ ~dbOk
        IN /\ fails => ~r.ret /\ r.relay = Zero
           /\ (privKey = strMasterPubKey /\ signOk /\ ~Count(mapBlockIndex, hash))
              => /\ r.s.hashPendingCheckpoint = hash
                 /\ r.s.hashSyncCheckpoint = hashSyncCheckpoint
           /\ r.relay # Zero
              => /\ r.ret
                 /\ r.relay = hash
                 /\ r.s.hashSyncCheckpoint = hash
                 /\ r.s.dbSyncCheckpoint = hash
           /\ r.ret => r.relay = hash

\* SendSyncCheckpoint succeeded with the master's key: it relayed a hash
\* other than genesis, which is the active checkpoint.
C15_Witness ==
    /\ last.op = "SendSyncCheckpoint"
    /\ last.ret
    /\ strMasterPrivKey = strMasterPubKey
    /\ last.relay = hashSyncCheckpoint
    /\ last.relay # hashGenesisBlock

\* ---------------------------------------------------------------- C16
\* C16: for a block of height parent.height+1 not above the active checkpoint
\* C, CheckSyncCheckpoint accepts at C's height exactly when the block hash is
\* C's hash, and below C's height exactly when the block hash is already in
\* the block index.
C16_AtOrBelowCheckpoint ==
    ActiveKnown =>
        \A hashBlock \in Hashes, pindexPrev \in DOMAIN mapBlockIndex, dbOk \in BOOLEAN :
            LET nHeight == HeightOf(pindexPrev) + 1
                r == CheckSyncCheckpoint(State, mapBlockIndex, chainActive,
                                         hashBlock, pindexPrev, dbOk)
            IN /\ nHeight = HeightOf(hashSyncCheckpoint)
                  => (r.ret <=> hashBlock = hashSyncCheckpoint)
               /\ nHeight < HeightOf(hashSyncCheckpoint)
                  => (r.ret <=> Count(mapBlockIndex, hashBlock))

\* CheckSyncCheckpoint rejected a block while no block that can be checked is
\* higher than the active checkpoint.
C16_Witness ==
    /\ last.op = "CheckSyncCheckpoint"
    /\ ~last.ret
    /\ ActiveKnown
    /\ \A h \in Hashes :
         Count(mapBlockIndex, hashPrevBlock(h))
         => HeightOf(hashPrevBlock(h)) + 1 <= HeightOf(hashSyncCheckpoint)

\* ---------------------------------------------------------------- C17
\* C17 as claimed: whenever the pending hash is set, the block it names is not
\* in the block index.
C17_PendingNotInIndex ==
    hashPendingCheckpoint # Zero => ~Count(mapBlockIndex, hashPendingCheckpoint)

\* C17 amended: right after any AcceptPendingSyncCheckpoint, whenever the
\* pending hash is set and the block it names is in the block index, that
\* block passed validation and is not on the active chain, or the durable
\* write of the promotion failed.
C17_PendingInIndexOnlyOffChain ==
    \A dbOk \in BOOLEAN :
        LET r == AcceptPendingSyncCheckpoint(State, mapBlockIndex, chainActive, dbOk)
        IN (r.s.hashPendingCheckpoint # Zero
            /\ Count(mapBlockIndex, r.s.hashPendingCheckpoint))
           => /\ r.s.hashPendingCheckpoint = hashPendingCheckpoint
              /\ PendingValidates
              /\ ~Contains(chainActive, mapBlockIndex, hashPendingCheckpoint) \/ ~dbOk

\* AcceptPendingSyncCheckpoint ran and left pending a checkpoint whose block
\* is in the index but not on the active chain.
C17_Witness ==
    /\ last.op = "AcceptPendingSyncCheckpoint"
    /\ ~last.ret
    /\ hashPendingCheckpoint # Zero
    /\ Count(mapBlockIndex, hashPendingCheckpoint)
    /\ ~Contains(chainActive, mapBlockIndex, hashPendingCheckpoint)

\* ---------------------------------------------------------------- C18
\* C18 as claimed: the pending hash is non-zero exactly when the pending
\* message is non-null.
C18_PendingHashIffMessage ==
    hashPendingCheckpoint # Zero <=> ~IsNull(checkpointMessagePending)

\* C18 amended: a non-null pending message is the signed message for the
\* pending hash, which is then non-zero; a null pending message goes with a
\* zero pending hash or with the hardened checkpoint hash that
\* ResetSyncCheckpoint queued without a message.
C18_PendingMessageMatchesHash ==
    IF IsNull(checkpointMessagePending)
    THEN /\ checkpointMessagePending = NullMessage
         /\ hashPendingCheckpoint \in {Zero, hashHardenedCheckpoint}
    ELSE /\ hashPendingCheckpoint # Zero
         /\ checkpointMessagePending = SignedMessage(hashPendingCheckpoint)

\* ResetSyncCheckpoint queued the hardened checkpoint without a message.
C18_Witness ==
    /\ last.op = "ResetSyncCheckpoint"
    /\ hashPendingCheckpoint = hashHardenedCheckpoint
    /\ ~Count(mapBlockIndex, hashHardenedCheckpoint)
    /\ IsNull(checkpointMessagePending)

\* ---------------------------------------------------------------- C19
\* A candidate in the index that conflicts with the active checkpoint: not
\* higher and off the active chain, or higher and not a descendant.
Conflicts(c2) ==
    /\ ActiveKnown
    /\ Count(mapBlockIndex, c2)
    /\ IF HeightOf(c2) <= HeightOf(hashSyncCheckpoint)
       THEN ~Contains(chainActive, mapBlockIndex, c2)
       ELSE ~IsAncestorOrSelf(mapBlockIndex, hashSyncCheckpoint, c2)

\* The state with the conflict marker cleared.
Unmarked == [State EXCEPT !.hashInvalidCheckpoint = Zero]
\* Two results agree in everything but the conflict marker.
SameButMarker(r1, r2) ==
    /\ r1.ret = r2.ret
    /\ [r1.s EXCEPT !.hashInvalidCheckpoint = Zero]
       = [r2.s EXCEPT !.hashInvalidCheckpoint = Zero]

\* No operation reads the conflict marker: with the marker set each gives the
\* result, and apart from the marker the state, it gives with the marker zero.
MarkerNotRead ==
    hashInvalidCheckpoint # Zero =>
    \A dbOk \in BOOLEAN :
        /\ \A msg \in Messages :
             SameButMarker(
                ProcessSyncCheckpoint(State, mapBlockIndex, chainActive, msg, dbOk),
                ProcessSyncCheckpoint(Unmarked, mapBlockIndex, chainActive, msg, dbOk))
        /\ SameButMarker(
                AcceptPendingSyncCheckpoint(State, mapBlockIndex, chainActive, dbOk),
                AcceptPendingSyncCheckpoint(Unmarked, mapBlockIndex, chainActive, dbOk))
        /\ SameButMarker(
                ResetSyncCheckpoint(State, mapBlockIndex, chainActive, dbOk),
                ResetSyncCheckpoint(Unmarked, mapBlockIndex, chainActive, dbOk))
        /\ \A hashBlock \in Hashes :
             Count(mapBlockIndex, hashPrevBlock(hashBlock)) =>
                SameButMarker(
                    CheckSyncCheckpoint(State, mapBlockIndex, chainActive,
                                        hashBlock, hashPrevBlock(hashBlock), dbOk),
                    CheckSyncCheckpoint(Unmarked, mapBlockIndex, chainActive,
                                        hashBlock, hashPrevBlock(hashBlock), dbOk))

\* C19: the conflict marker changes only in a validating operation
\* (ProcessSyncCheckpoint, AcceptPendingSyncCheckpoint) and then to a candidate
\* that conflicts with the active checkpoint; validation of a conflicting
\* candidate sets it; once non-zero it never becomes zero again; and its value
\* influences no operation's result, so it never causes a valid checkpoint or
\* block to be rejected.
C19_MarkerStickyAndAdvisory ==
    /\ [][/\ hashInvalidCheckpoint' # hashInvalidCheckpoint
             => /\ last'.op \in {"ProcessSyncCheckpoint", "AcceptPendingSyncCheckpoint"}
                /\ ~last'.ret
                /\ Conflicts(hashInvalidCheckpoint')
          /\ hashInvalidCheckpoint # Zero => hashInvalidCheckpoint' # Zero]_vars
    /\ [](\A c2 \in DOMAIN mapBlockIndex :
            Conflicts(c2) =>
                ValidateSyncCheckpoint(State, mapBlockIndex, chainActive, c2)
                    .s.hashInvalidCheckpoint = c2)
    /\ []MarkerNotRead

\* With the conflict marker set, ProcessSyncCheckpoint accepted a checkpoint.
C19_Witness ==
    /\ hashInvalidCheckpoint # Zero
    /\ last.op = "ProcessSyncCheckpoint"
    /\ last.ret
    /\ hashSyncCheckpoint # hashInvalidCheckpoint

\* ---------------------------------------------------------------- C20
\* C20: no operation installs as active checkpoint a block that is in the
\* index but off the active chain: whenever ProcessSyncCheckpoint,
\* AcceptPendingSyncCheckpoint, ResetSyncCheckpoint or CheckSyncCheckpoint
\* changes the active checkpoint, the new one is on chainActive.
C20_InstalledOnActiveChain ==
    [][(/\ hashSyncCheckpoint' # hashSyncCheckpoint
        /\ last'.op \in {"ProcessSyncCheckpoint", "AcceptPendingSyncCheckpoint",
                         "ResetSyncCheckpoint", "CheckSyncCheckpoint"})
       => Contains(chainActive', mapBlockIndex', hashSyncCheckpoint')]_vars
====
